---- MODULE Spec2Model ----
(***************************************************************************)
(* The ambient-sound playback hook, in two revisions:                      *)
(*   - the generation-counter revision (src/unnamed/part_000), Spec;       *)
(*   - the hook at src/src/hooks/useAmbientSounds.ts, SpecHook.            *)
(* The host's audio elements are records held in `audios`, one slot per    *)
(* element that is still alive: a reference to an element is its slot,     *)
(* NullRef standing for null, and an element that nothing refers to, that  *)
(* is silent and has no listener, timer or promise left is garbage, its    *)
(* slot free again.  The host is opaque: an armed listener may be called   *)
(* at any later time, and a play() promise may settle either way at any    *)
(* later time, also after the element was paused.                          *)
(* React state is taken as committed between two handlers.                 *)
(***************************************************************************)
EXTENDS Integers, Sequences, FiniteSets

\* ---------------------------------------------------------------- bounds
\* cap on the audio elements alive at once: no playSound is taken beyond it
MaxAudios == 2
\* playIdRef.current is capped: no call that would raise it further is taken
MaxPlayId == MaxAudios + 1

\* ------------------------------------------------------------- constants
NullRef == 0
\* volumes are counted in tenths; 0.3 is the default
DefaultVolume == 3
\* parseFloat's NaN
NaN == 0 - 1
Null == "null"
\* two of the catalog's four ids
Sounds == {"bird-sound", "rain"}
\* the values a caller passes to changeVolume (tenths, within [0,1])
VolumeInputs == {7}

VARIABLES
  isPlaying,        \* useState(false)
  currentSound,     \* useState(null): a sound id or Null
  isLoading,        \* useState(false)
  volume,           \* useState(initializer)
  audioRef,         \* audioRef.current
  volumeRef,        \* volumeRef.current
  playIdRef,        \* playIdRef.current
  pendingAudioRef,  \* pendingAudioRef.current
  loadTimeoutRef,   \* loadTimeoutRef.current: the element whose timer it holds
  audios,           \* the audio elements alive, by slot
  timers,           \* the fallback timers that are armed in the host
  storage,          \* localStorage['ambientSoundVolume']
  mounted           \* the component that owns the hook is mounted

vars == <<isPlaying, currentSound, isLoading, volume, audioRef, volumeRef,
          playIdRef, pendingAudioRef, loadTimeoutRef, audios, timers,
          storage, mounted>>

\* --------------------------------------------------- the persisted volume
\* a string is a sequence of characters; an absent key is [present |-> FALSE]
Absent == [present |-> FALSE, value |-> <<>>]
Stored(str) == [present |-> TRUE, value |-> str]

Digits == <<"0", "1", "2", "3", "4", "5", "6", "7", "8", "9">>
IsDigit(c) == \E i \in 1..10 : Digits[i] = c
DigitValue(c) == (CHOOSE i \in 1..10 : Digits[i] = c) - 1

\* Number.prototype.toString for a volume in tenths, 0..10
NumberToString(v) ==
  IF v = NaN THEN <<"N", "a", "N">>
  ELSE IF v % 10 = 0 THEN <<Digits[(v \div 10) + 1]>>
  ELSE <<Digits[(v \div 10) + 1], ".", Digits[(v % 10) + 1]>>

\* parseFloat on a string of at most one integer digit and one decimal:
\* the longest numeric prefix, NaN when there is none
ParseFloat(str) ==
  IF Len(str) >= 1 /\ IsDigit(str[1])
  THEN IF Len(str) >= 3 /\ str[2] = "." /\ IsDigit(str[3])
       THEN 10 * DigitValue(str[1]) + DigitValue(str[3])
       ELSE 10 * DigitValue(str[1])
  ELSE IF Len(str) >= 2 /\ str[1] = "." /\ IsDigit(str[2])
  THEN DigitValue(str[2])
  ELSE NaN

\* the initializer written as parseFloat(savedVolume) || 0.3
InitialVolume_orDefault(st) ==
  IF st.present /\ ParseFloat(st.value) \notin {NaN, 0}
  THEN ParseFloat(st.value) ELSE DefaultVolume

\* const savedVolume = localStorage.getItem(..);
\* return savedVolume ? parseFloat(savedVolume) : 0.3;
InitialVolume(st) ==
  IF st.present /\ st.value # <<>> THEN ParseFloat(st.value) ELSE DefaultVolume

\* what the store may hold when the hook is first used
StoredValues == {Absent, Stored(<<"a", "b", "c">>)}

\* the volumes the slider passes to changeVolume in SpecVolume: 0, 0.7 and 1,
\* whose strings are "0", "0.7" and "1"
Volumes == {0, 7, 10}

\* what the store may hold when the hook is mounted in SpecVolume: nothing, an
\* empty string, text, a number
VolumeStoredValues ==
  {Absent, Stored(<<>>), Stored(<<"a", "b", "c">>), Stored(<<"0", ".", "5">>)}

\* HTMLMediaElement.volume accepts a finite number within [0,1] and throws otherwise
ValidVolume(v) == v # NaN /\ v >= 0 /\ v <= 10

\* ------------------------------------------------------ the audio elements
Slots == 1..MaxAudios

\* a slot that holds no element
Free ==
  [used |-> FALSE, src |-> Null, playId |-> 0, volume |-> 0, audible |-> FALSE,
   canplay |-> FALSE, error |-> FALSE, started |-> FALSE, plays |-> 0,
   stoppedBeforeReady |-> FALSE, orphan |-> FALSE]

\* new Audio() left with the volume 1 an element is created with
NewAudio_defaultVolume(sound, id, vol) ==
  [used |-> TRUE, src |-> sound, playId |-> id, volume |-> 10,
   audible |-> FALSE, canplay |-> TRUE, error |-> TRUE, started |-> FALSE,
   plays |-> 0, stoppedBeforeReady |-> FALSE, orphan |-> FALSE]

\* new Audio(); preload, loop, volume; both listeners added; src set; load().
\* src is the id of the sound whose audioUrl was assigned, playId the
\* thisPlayId its closures captured (their `sound` is the one of src: only a
\* released element loses its src, and its closures read `sound` no more),
\* started their flag, plays the number of play() promises not settled yet.
\* orphan says that the instance of the hook that created the element has been
\* unmounted and another one mounted: the element's closures hold the refs of
\* the old instance, whose playIdRef.current the cleanup has moved on for good.
NewAudio(sound, id, vol) ==
  [used |-> TRUE, src |-> sound, playId |-> id, volume |-> vol,
   audible |-> FALSE, canplay |-> TRUE, error |-> TRUE, started |-> FALSE,
   plays |-> 0, stoppedBeforeReady |-> FALSE, orphan |-> FALSE]

Refs == {e \in Slots : audios[e].used}
Audible == {e \in Refs : audios[e].audible}
FreeSlots == {e \in Slots : ~audios[e].used}
\* the slot new Audio() takes
NextSlot == CHOOSE e \in FreeSlots : \A f \in FreeSlots : e <= f

\* Release without the pause(): the element goes on playing
Release_noPause(as, ref) ==
  IF ref = NullRef THEN as
  ELSE [as EXCEPT ![ref].src = Null, ![ref].volume = 0]

\* ref.pause(); ref.src = ''  (when ref is not null).  The caller drops its
\* reference next and nothing reads the element's volume again: it is not kept.
Release(as, ref) ==
  IF ref = NullRef THEN as
  ELSE [as EXCEPT ![ref].audible = FALSE, ![ref].src = Null, ![ref].volume = 0]

\* an element is garbage once nothing can reach it: no ref, no timer, no
\* listener, no promise, and it is not playing
Collect(as, keep) ==
  [e \in Slots |->
     IF /\ as[e].used /\ e \notin keep /\ ~as[e].audible
        /\ ~as[e].canplay /\ ~as[e].error /\ as[e].plays = 0
     THEN Free ELSE as[e]]

\* clearTimeout(loadTimeoutRef.current) when it is not null
ClearTimeout(ts, ref) == IF ref = NullRef THEN ts ELSE ts \ {ref}

Init ==
  /\ storage \in StoredValues
  /\ isPlaying = FALSE
  /\ currentSound = Null
  /\ isLoading = FALSE
  /\ volume = InitialVolume(storage)
  /\ volumeRef = InitialVolume(storage)
  /\ audioRef = NullRef
  /\ playIdRef = 0
  /\ pendingAudioRef = NullRef
  /\ loadTimeoutRef = NullRef
  /\ audios = [e \in Slots |-> Free]
  /\ timers = {}
  /\ mounted = TRUE

\* ================================================== src/unnamed/part_000
\* the generation check left out
Cancelled_never(thisPlayId) == FALSE

\* the generation check with the comparison turned round
Cancelled_inverted(thisPlayId) == playIdRef = thisPlayId

\* if (playIdRef.current !== thisPlayId): cancelled or switched
Cancelled(thisPlayId) == playIdRef # thisPlayId

\* the same check made by a closure of element e: an orphan reads the
\* playIdRef of its own, unmounted instance, which differs from its thisPlayId
Outdated(as, e) == as[e].orphan \/ Cancelled(as[e].playId)

\* startPlayback() without its `started` flag
StartPlayback_noStartedCheck(as, e) ==
  IF Outdated(as, e) THEN as
  ELSE [as EXCEPT ![e].plays = @ + 1]

\* startPlayback(): if (started) return; if (cancelled) return; audio.play()
StartPlayback(as, e) ==
  IF as[e].started \/ Outdated(as, e) THEN as
  ELSE [as EXCEPT ![e].plays = @ + 1]

\* playSound(sound)
playSound(sound) ==
  /\ mounted
  /\ playIdRef < MaxPlayId
  /\ FreeSlots # {}
  /\ LET thisPlayId == playIdRef + 1
         released == Release(Release(audios, pendingAudioRef), audioRef)
         cleared == ClearTimeout(timers, loadTimeoutRef)
         audio == NextSlot
     IN /\ playIdRef' = thisPlayId
        /\ audioRef' = NullRef
        /\ IF ValidVolume(volumeRef)
           THEN \* the element is created and the immediate attempt calls play()
                /\ audios' = Collect(
                     [released EXCEPT ![audio] =
                        [NewAudio(sound, thisPlayId, volumeRef) EXCEPT !.plays = 1]],
                     {audio})
                /\ pendingAudioRef' = audio
                /\ loadTimeoutRef' = audio
                /\ timers' = cleared \cup {audio}
                /\ isLoading' = TRUE
           ELSE \* audio.volume = volumeRef.current throws; the catch block runs
                /\ audios' = Collect(released, {})
                /\ pendingAudioRef' = NullRef
                /\ loadTimeoutRef' = NullRef
                /\ timers' = cleared
                /\ isLoading' = FALSE
  /\ UNCHANGED <<isPlaying, currentSound, volume, volumeRef, storage, mounted>>

\* stopSound() that does not invalidate the pending playback (no playIdRef++)
stopSound_noInvalidate ==
  /\ mounted
  /\ playIdRef < MaxPlayId
  /\ timers' = ClearTimeout(timers, loadTimeoutRef)
  /\ loadTimeoutRef' = NullRef
  /\ audios' = Collect(Release(Release(audios, pendingAudioRef), audioRef), {})
  /\ pendingAudioRef' = NullRef
  /\ audioRef' = NullRef
  /\ isPlaying' = FALSE
  /\ currentSound' = Null
  /\ isLoading' = FALSE
  /\ UNCHANGED <<playIdRef, volume, volumeRef, storage, mounted>>

\* stopSound() that flips isPlaying instead of clearing it
stopSound_flip ==
  /\ mounted
  /\ playIdRef < MaxPlayId
  /\ playIdRef' = playIdRef + 1
  /\ timers' = ClearTimeout(timers, loadTimeoutRef)
  /\ loadTimeoutRef' = NullRef
  /\ audios' = Collect(Release(Release(audios, pendingAudioRef), audioRef), {})
  /\ pendingAudioRef' = NullRef
  /\ audioRef' = NullRef
  /\ isPlaying' = ~isPlaying
  /\ currentSound' = Null
  /\ isLoading' = FALSE
  /\ UNCHANGED <<volume, volumeRef, storage, mounted>>

\* stopSound()
stopSound ==
  /\ mounted
  /\ playIdRef < MaxPlayId
  /\ playIdRef' = playIdRef + 1
  /\ timers' = ClearTimeout(timers, loadTimeoutRef)
  /\ loadTimeoutRef' = NullRef
  /\ audios' = Collect(Release(Release(audios, pendingAudioRef), audioRef), {})
  /\ pendingAudioRef' = NullRef
  /\ audioRef' = NullRef
  /\ isPlaying' = FALSE
  /\ currentSound' = Null
  /\ isLoading' = FALSE
  /\ UNCHANGED <<volume, volumeRef, storage, mounted>>

\* toggleSound(sound)
toggleSound(sound) ==
  IF isPlaying /\ currentSound = sound THEN stopSound ELSE playSound(sound)

\* changeVolume() that leaves the playing element's volume alone
changeVolume_noLive(newVolume) ==
  /\ mounted
  /\ volume' = newVolume
  /\ volumeRef' = newVolume
  /\ storage' = Stored(NumberToString(newVolume))
  /\ UNCHANGED <<isPlaying, currentSound, isLoading, audioRef, playIdRef,
                 pendingAudioRef, loadTimeoutRef, audios, timers, mounted>>

\* changeVolume(newVolume)
changeVolume(newVolume) ==
  /\ mounted
  /\ volume' = newVolume
  /\ volumeRef' = newVolume
  /\ storage' = Stored(NumberToString(newVolume))
  /\ audios' = IF audioRef = NullRef THEN audios
               ELSE [audios EXCEPT ![audioRef].volume = newVolume]
  /\ UNCHANGED <<isPlaying, currentSound, isLoading, audioRef, playIdRef,
                 pendingAudioRef, loadTimeoutRef, timers, mounted>>

\* the cleanup without its playIdRef.current++
unmount_noInvalidate ==
  /\ mounted
  /\ mounted' = FALSE
  /\ timers' = ClearTimeout(timers, loadTimeoutRef)
  /\ loadTimeoutRef' = NullRef
  /\ audios' = Collect(Release(Release(audios, pendingAudioRef), audioRef), {})
  /\ pendingAudioRef' = NullRef
  /\ audioRef' = NullRef
  /\ UNCHANGED <<isPlaying, currentSound, isLoading, volume, volumeRef,
                 playIdRef, storage>>

\* the cleanup of the unmount effect
unmount ==
  /\ mounted
  /\ mounted' = FALSE
  /\ playIdRef' = playIdRef + 1
  /\ timers' = ClearTimeout(timers, loadTimeoutRef)
  /\ loadTimeoutRef' = NullRef
  /\ audios' = Collect(Release(Release(audios, pendingAudioRef), audioRef), {})
  /\ pendingAudioRef' = NullRef
  /\ audioRef' = NullRef
  /\ UNCHANGED <<isPlaying, currentSound, isLoading, volume, volumeRef, storage>>

\* the 'canplay' event of element e reaches its once-listener startPlayback
canplay(e) ==
  /\ audios[e].canplay
  /\ audios' = Collect(StartPlayback([audios EXCEPT ![e].canplay = FALSE], e),
                       {pendingAudioRef, audioRef})
  /\ UNCHANGED <<isPlaying, currentSound, isLoading, volume, audioRef, volumeRef,
                 playIdRef, pendingAudioRef, loadTimeoutRef, timers, storage,
                 mounted>>

\* the 300 ms timer set for element e fires: () => startPlayback()
fallbackTimer(e) ==
  /\ e \in timers
  /\ timers' = timers \ {e}
  /\ audios' = Collect(StartPlayback(audios, e), {pendingAudioRef, audioRef})
  /\ UNCHANGED <<isPlaying, currentSound, isLoading, volume, audioRef, volumeRef,
                 playIdRef, pendingAudioRef, loadTimeoutRef, storage, mounted>>

\* a success continuation that forgets pendingAudioRef.current = null
playFulfilled_keepPending(e) ==
  /\ audios[e].plays > 0
  /\ IF Outdated(audios, e)
     THEN /\ audios' = Collect(
               [audios EXCEPT ![e].plays = @ - 1, ![e].audible = FALSE],
               {pendingAudioRef, audioRef})
          /\ UNCHANGED <<isPlaying, currentSound, isLoading, audioRef,
                         pendingAudioRef, loadTimeoutRef, timers>>
     ELSE /\ audios' = Collect(
               [audios EXCEPT ![e].plays = @ - 1, ![e].audible = TRUE,
                              ![e].started = TRUE],
               {e})
          /\ audioRef' = e
          /\ currentSound' = audios[e].src
          /\ isPlaying' = TRUE
          /\ isLoading' = FALSE
          /\ timers' = ClearTimeout(timers, loadTimeoutRef)
          /\ loadTimeoutRef' = NullRef
          /\ UNCHANGED pendingAudioRef
  /\ UNCHANGED <<volume, volumeRef, playIdRef, storage, mounted>>

\* a play() promise of element e is fulfilled: the .then continuation.  The
\* element plays from the fulfilment on; the cancelled branch pauses it at once.
playFulfilled(e) ==
  /\ audios[e].plays > 0
  /\ IF Outdated(audios, e)
     THEN \* play succeeded but already cancelled: audio.pause()
          /\ audios' = Collect(
               [audios EXCEPT ![e].plays = @ - 1, ![e].audible = FALSE],
               {pendingAudioRef, audioRef})
          /\ UNCHANGED <<isPlaying, currentSound, isLoading, audioRef,
                         pendingAudioRef, loadTimeoutRef, timers>>
     ELSE /\ audios' = Collect(
               [audios EXCEPT ![e].plays = @ - 1, ![e].audible = TRUE,
                              ![e].started = TRUE],
               {e})
          /\ audioRef' = e
          /\ pendingAudioRef' = NullRef
          /\ currentSound' = audios[e].src
          /\ isPlaying' = TRUE
          /\ isLoading' = FALSE
          /\ timers' = ClearTimeout(timers, loadTimeoutRef)
          /\ loadTimeoutRef' = NullRef
  /\ UNCHANGED <<volume, volumeRef, playIdRef, storage, mounted>>

\* a .catch that gives the request up: setIsLoading(false) when live
playRejected_clearsLoading(e) ==
  /\ audios[e].plays > 0
  /\ audios' = Collect([audios EXCEPT ![e].plays = @ - 1],
                       {pendingAudioRef, audioRef})
  /\ isLoading' = IF Outdated(audios, e) THEN isLoading ELSE FALSE
  /\ UNCHANGED <<isPlaying, currentSound, volume, audioRef, volumeRef,
                 playIdRef, pendingAudioRef, loadTimeoutRef, timers, storage,
                 mounted>>

\* a play() promise of element e is rejected: the empty .catch
playRejected(e) ==
  /\ audios[e].plays > 0
  /\ audios' = Collect([audios EXCEPT ![e].plays = @ - 1],
                       {pendingAudioRef, audioRef})
  /\ UNCHANGED <<isPlaying, currentSound, isLoading, volume, audioRef, volumeRef,
                 playIdRef, pendingAudioRef, loadTimeoutRef, timers, storage,
                 mounted>>

\* the 'error' event of element e reaches its once-listener handleError
handleError(e) ==
  /\ audios[e].error
  /\ audios' = Collect([audios EXCEPT ![e].error = FALSE],
                       {pendingAudioRef, audioRef})
  /\ isLoading' = IF Outdated(audios, e) THEN isLoading ELSE FALSE
  /\ UNCHANGED <<isPlaying, currentSound, volume, audioRef, volumeRef, playIdRef,
                 pendingAudioRef, loadTimeoutRef, timers, storage, mounted>>

Next ==
  \/ \E s \in Sounds : playSound(s)
  \/ stopSound
  \/ \E s \in Sounds : toggleSound(s)
  \/ \E v \in VolumeInputs : changeVolume(v)
  \/ \E e \in Refs : canplay(e)
  \/ \E e \in Refs : fallbackTimer(e)
  \/ \E e \in Refs : playFulfilled(e)
  \/ \E e \in Refs : playRejected(e)
  \/ \E e \in Refs : handleError(e)

Spec == Init /\ [][Next]_vars

\* SpecUnmount: the same hook, its owner being torn down at any time
NextUnmount ==
  \/ \E s \in Sounds : playSound(s)
  \/ stopSound
  \/ \E s \in Sounds : toggleSound(s)
  \/ \E v \in VolumeInputs : changeVolume(v)
  \/ unmount
  \/ \E e \in Refs : canplay(e)
  \/ \E e \in Refs : fallbackTimer(e)
  \/ \E e \in Refs : playFulfilled(e)
  \/ \E e \in Refs : playRejected(e)
  \/ \E e \in Refs : handleError(e)

SpecUnmount == Init /\ [][NextUnmount]_vars

\* SpecVolume: the persisted volume across instances of the hook: the owner is
\* unmounted and mounted again at any time.  The store starts with any of
\* VolumeStoredValues and the slider passes any of Volumes.
InitVolume ==
  /\ storage \in VolumeStoredValues
  /\ isPlaying = FALSE
  /\ currentSound = Null
  /\ isLoading = FALSE
  /\ volume = InitialVolume(storage)
  /\ volumeRef = InitialVolume(storage)
  /\ audioRef = NullRef
  /\ playIdRef = 0
  /\ pendingAudioRef = NullRef
  /\ loadTimeoutRef = NullRef
  /\ audios = [e \in Slots |-> Free]
  /\ timers = {}
  /\ mounted = TRUE

\* the owner is mounted again after an unmount: the new instance runs its
\* useState and useRef initializers and inherits the store.  The elements of
\* the old instance stay in the host with their listeners and promises; they
\* are orphans from here on.
mount ==
  /\ ~mounted
  /\ mounted' = TRUE
  /\ isPlaying' = FALSE
  /\ currentSound' = Null
  /\ isLoading' = FALSE
  /\ volume' = InitialVolume(storage)
  /\ volumeRef' = InitialVolume(storage)
  /\ audioRef' = NullRef
  /\ playIdRef' = 0
  /\ pendingAudioRef' = NullRef
  /\ loadTimeoutRef' = NullRef
  /\ audios' = [e \in Slots |->
                 IF audios[e].used THEN [audios[e] EXCEPT !.orphan = TRUE]
                 ELSE audios[e]]
  /\ UNCHANGED <<timers, storage>>

NextVolume ==
  \/ \E s \in Sounds : playSound(s)
  \/ stopSound
  \/ \E v \in Volumes : changeVolume(v)
  \/ unmount
  \/ mount
  \/ \E e \in Refs : canplay(e)
  \/ \E e \in Refs : fallbackTimer(e)
  \/ \E e \in Refs : playFulfilled(e)
  \/ \E e \in Refs : playRejected(e)
  \/ \E e \in Refs : handleError(e)

SpecVolume == InitVolume /\ [][NextVolume]_vars

\* ===================================== src/src/hooks/useAmbientSounds.ts
\* This revision has no playIdRef, pendingAudioRef or loadTimeoutRef: they keep
\* their initial values, and so does `timers`.  An element's stoppedBeforeReady
\* records that stopSound() ran after the playSound that created the element
\* and before its canplaythrough event.

\* playSound(sound); `if (isLoading) return` is the guard
playSound_hook(sound) ==
  /\ mounted
  /\ ~isLoading
  /\ FreeSlots # {}
  /\ LET released == Release(audios, audioRef)
         audio == NextSlot
     IN /\ audioRef' = NullRef
        /\ IF ValidVolume(volumeRef)
           THEN /\ audios' = Collect(
                     [released EXCEPT ![audio] = NewAudio(sound, 0, volumeRef)],
                     {})
                /\ isLoading' = TRUE
           ELSE \* audio.volume = volumeRef.current throws; the catch block runs
                /\ audios' = Collect(released, {})
                /\ isLoading' = FALSE
  /\ UNCHANGED <<isPlaying, currentSound, volume, volumeRef, playIdRef,
                 pendingAudioRef, loadTimeoutRef, timers, storage, mounted>>

\* stopSound()
stopSound_hook ==
  /\ mounted
  /\ audios' = Collect(
       [e \in Slots |->
          IF audios[e].used /\ audios[e].canplay
          THEN [Release(audios, audioRef)[e] EXCEPT !.stoppedBeforeReady = TRUE]
          ELSE Release(audios, audioRef)[e]],
       {})
  /\ audioRef' = NullRef
  /\ isPlaying' = FALSE
  /\ currentSound' = Null
  /\ isLoading' = FALSE
  /\ UNCHANGED <<volume, volumeRef, playIdRef, pendingAudioRef, loadTimeoutRef,
                 timers, storage, mounted>>

\* toggleSound(sound); `if (isLoading) return` is the guard
toggleSound_hook(sound) ==
  /\ ~isLoading
  /\ IF isPlaying /\ currentSound = sound
     THEN stopSound_hook ELSE playSound_hook(sound)

\* changeVolume(newVolume)
changeVolume_hook(newVolume) ==
  /\ mounted
  /\ volume' = newVolume
  /\ volumeRef' = newVolume
  /\ storage' = Stored(NumberToString(newVolume))
  /\ audios' = IF audioRef = NullRef THEN audios
               ELSE [audios EXCEPT ![audioRef].volume = newVolume]
  /\ UNCHANGED <<isPlaying, currentSound, isLoading, audioRef, playIdRef,
                 pendingAudioRef, loadTimeoutRef, timers, mounted>>

\* the 'canplaythrough' event of element e reaches its once-listener
\* handleCanPlay, which calls audio.play()
handleCanPlay_hook(e) ==
  /\ audios[e].canplay
  /\ audios' = [audios EXCEPT ![e].canplay = FALSE, ![e].plays = @ + 1]
  /\ UNCHANGED <<isPlaying, currentSound, isLoading, volume, audioRef, volumeRef,
                 playIdRef, pendingAudioRef, loadTimeoutRef, timers, storage,
                 mounted>>

\* the play() promise of element e is fulfilled: the .then continuation.
\* React drops the state updates of an unmounted component; the ref and the
\* element change all the same.
playFulfilled_hook(e) ==
  /\ audios[e].plays > 0
  /\ audios' = Collect([audios EXCEPT ![e].plays = @ - 1, ![e].audible = TRUE],
                       {e})
  /\ audioRef' = e
  /\ IF mounted
     THEN /\ currentSound' = audios[e].src
          /\ isPlaying' = TRUE
          /\ isLoading' = FALSE
     ELSE UNCHANGED <<currentSound, isPlaying, isLoading>>
  /\ UNCHANGED <<volume, volumeRef, playIdRef, pendingAudioRef, loadTimeoutRef,
                 timers, storage, mounted>>

\* the play() promise of element e is rejected: the .catch continuation;
\* setIsLoading(false) is dropped when the component is unmounted
playRejected_hook(e) ==
  /\ audios[e].plays > 0
  /\ audios' = Collect([audios EXCEPT ![e].plays = @ - 1], {audioRef})
  /\ isLoading' = IF mounted THEN FALSE ELSE isLoading
  /\ UNCHANGED <<isPlaying, currentSound, volume, audioRef, volumeRef, playIdRef,
                 pendingAudioRef, loadTimeoutRef, timers, storage, mounted>>

\* the 'error' event of element e reaches its once-listener handleError;
\* setIsLoading(false) is dropped when the component is unmounted
handleError_hook(e) ==
  /\ audios[e].error
  /\ audios' = Collect([audios EXCEPT ![e].error = FALSE], {audioRef})
  /\ isLoading' = IF mounted THEN FALSE ELSE isLoading
  /\ UNCHANGED <<isPlaying, currentSound, volume, audioRef, volumeRef, playIdRef,
                 pendingAudioRef, loadTimeoutRef, timers, storage, mounted>>

\* the cleanup of the unmount effect of this revision: the playing element
unmount_hook ==
  /\ mounted
  /\ mounted' = FALSE
  /\ audios' = Collect(Release(audios, audioRef), {})
  /\ audioRef' = NullRef
  /\ UNCHANGED <<isPlaying, currentSound, isLoading, volume, volumeRef,
                 playIdRef, pendingAudioRef, loadTimeoutRef, timers, storage>>

NextHook ==
  \/ \E s \in Sounds : playSound_hook(s)
  \/ stopSound_hook
  \/ \E s \in Sounds : toggleSound_hook(s)
  \/ \E v \in VolumeInputs : changeVolume_hook(v)
  \/ unmount_hook
  \/ \E e \in Refs : handleCanPlay_hook(e)
  \/ \E e \in Refs : playFulfilled_hook(e)
  \/ \E e \in Refs : playRejected_hook(e)
  \/ \E e \in Refs : handleError_hook(e)

SpecHook == Init /\ [][NextHook]_vars

\* =========================================== properties of part_000 (Spec)
\* the observable state and the resources of the Idle controller
Idle ==
  /\ ~isPlaying /\ currentSound = Null /\ ~isLoading
  /\ audioRef = NullRef /\ pendingAudioRef = NullRef
  /\ loadTimeoutRef = NullRef /\ timers = {}

\* a callback of element e runs with a captured thisPlayId that is not live
StaleCallback(e) ==
  /\ audios[e].playId # playIdRef
  /\ canplay(e) \/ fallbackTimer(e) \/ playFulfilled(e) \/ handleError(e)

\* C1: a canplay event, timer firing, play() success or error event whose
\* captured thisPlayId differs from playIdRef.current changes none of
\* isPlaying, currentSound, isLoading and audioRef.current.
C1_StaleCallbackIsNoOp ==
  [][\/ UNCHANGED <<isPlaying, currentSound, isLoading, audioRef>>
     \/ ~(\E e \in Refs : StaleCallback(e))]_vars

\* C1 witness: a superseded element has had its canplay event and its play()
\* promises delivered while another element is the one playing
C1_Witness ==
  \E e \in Refs :
    /\ audios[e].playId < playIdRef /\ ~audios[e].started
    /\ ~audios[e].canplay /\ audios[e].plays = 0
    /\ isPlaying /\ audioRef \notin {NullRef, e}

\* b is the element of the live request and a that of the request just before
\* it, which never started
Superseded(a, b) ==
  /\ audios[b].playId = playIdRef
  /\ audios[a].playId + 1 = audios[b].playId
  /\ ~audios[a].started

\* C2: after playSound(A) then playSound(B) before A started, A's element is
\* never audible nor the active one, and the state is loading toward B, Idle
\* after B's error, or Playing B.
C2_Supersession ==
  \A a \in Refs : \A b \in Refs :
    Superseded(a, b) =>
      /\ ~audios[a].audible /\ audioRef # a
      /\ \/ isLoading /\ pendingAudioRef = b
         \/ ~isLoading /\ ~isPlaying /\ currentSound = Null /\ ~audios[b].error
         \/ isPlaying /\ currentSound = audios[b].src /\ audioRef = b

\* C3: at most one audio element is audibly playing.
C3_AtMostOneAudible == Cardinality(Audible) <= 1

\* C3 witness: one element plays while a superseded one still has a play()
\* promise to settle
C3_Witness ==
  /\ Cardinality(Audible) = 1
  /\ \E e \in Refs : e \notin Audible /\ audios[e].plays > 0
                     /\ audios[e].playId < playIdRef

\* C4: right after stopSound() the controller is Idle with every resource
\* released and no timer armed, and it stays so under every step that is not a
\* playSound call.
C4_StopReachesIdleAndStays ==
  [][/\ stopSound =>
          /\ Idle'
          /\ \A e \in Slots : ~audios'[e].audible /\ audios'[e].src = Null
     /\ (Idle /\ ~(\E s \in Sounds : playSound(s))) => Idle']_vars

\* C4 witness: Idle after a stop, with callbacks of the stopped request still
\* to be delivered
C4_Witness ==
  /\ Idle /\ playIdRef > 0
  /\ \E e \in Refs : audios[e].canplay /\ audios[e].plays > 0

\* C7: isPlaying only if the element of the live request has confirmed its
\* start: audioRef.current is that element, it plays, and it was created for
\* currentSound.
C7_PlayingMeansLiveElementPlays ==
  isPlaying =>
    /\ audioRef # NullRef
    /\ audios[audioRef].audible
    /\ audios[audioRef].playId = playIdRef
    /\ audios[audioRef].src = currentSound

\* the Playing state of the controller, for sound s
PlayingState(s) == isPlaying /\ ~isLoading /\ currentSound = s

\* C8: toggleSound(S) is stopSound() exactly in the Playing state with
\* currentSound.id = S.id, and playSound(S) in every other state.
C8_ToggleSymmetry ==
  [][\A s \in Sounds :
       toggleSound(s) => IF PlayingState(s) THEN stopSound ELSE playSound(s)]_vars

\* C9: an error event for the live generation ends in Idle with the pending
\* resource released.
C9_LiveErrorEndsIdle ==
  [][\A e \in Refs :
       (handleError(e) /\ audios[e].playId = playIdRef) =>
         /\ ~isLoading' /\ ~isPlaying' /\ currentSound' = Null
         /\ pendingAudioRef' = NullRef]_vars

\* C10: stopSound() in Idle changes nothing but the generation, and a stop
\* leaves the controller Idle, so that a second stop in a row changes nothing.
C10_StopIdempotent ==
  [][stopSound =>
       /\ Idle'
       /\ Idle => UNCHANGED <<isPlaying, currentSound, isLoading, volume,
                              audioRef, volumeRef, pendingAudioRef,
                              loadTimeoutRef, audios, timers, storage>>]_vars

\* C10 witness: Idle at the third generation, the element of the first request
\* still alive with all its callbacks to come: the calls after it were stops
C10_Witness ==
  /\ Idle /\ playIdRef = 3
  /\ \E e \in Refs :
       /\ Refs = {e} /\ audios[e].playId = 1
       /\ audios[e].canplay /\ audios[e].error /\ audios[e].plays = 1

\* C11: when a play() promise of the pending element of the live request is
\* fulfilled, with no playSound, stopSound or unmount since the request, the
\* controller is Playing that element's sound: isPlaying, currentSound the
\* requested sound, not loading, audioRef.current the element, which plays, and
\* pendingAudioRef.current null.
C11_LiveSuccessReachesPlaying ==
  [][\A e \in Refs :
       (pendingAudioRef = e /\ audios[e].playId = playIdRef
          /\ playFulfilled(e)) =>
         /\ isPlaying' /\ currentSound' = audios[e].src /\ ~isLoading'
         /\ audioRef' = e /\ pendingAudioRef' = NullRef
         /\ audios'[e].audible]_vars

\* C11 witness: the second request has been promoted from Loading to Playing
\* while the first request's sound was the other one
C11_Witness ==
  /\ isPlaying /\ ~isLoading /\ pendingAudioRef = NullRef
  /\ audioRef # NullRef /\ playIdRef = 2
  /\ audios[audioRef].playId = 2 /\ audios[audioRef].started
  /\ audios[audioRef].audible /\ currentSound = audios[audioRef].src

\* C12: once a play() success of the live request has made its element the
\* started one, a later canplay event or fallback timer of that request calls
\* play() no more, and neither they nor a further play() success change
\* isPlaying, currentSound, isLoading, audioRef.current or
\* pendingAudioRef.current.
C12_OneStartTransition ==
  [][\A e \in Refs :
       (audios[e].started /\ audios[e].playId = playIdRef) =>
         /\ (canplay(e) \/ fallbackTimer(e)) =>
               /\ audios'[e].plays = audios[e].plays
               /\ UNCHANGED <<isPlaying, currentSound, isLoading, audioRef,
                              pendingAudioRef>>
         /\ playFulfilled(e) =>
               UNCHANGED <<isPlaying, currentSound, isLoading, audioRef,
                           pendingAudioRef>>]_vars

\* C12 witness: the live element has started on one of two play() calls (the
\* immediate one and the timer's); the other promise and the canplay event
\* are still to come
C12_Witness ==
  \E e \in Refs :
    /\ audios[e].started /\ audios[e].playId = playIdRef /\ audioRef = e
    /\ audios[e].plays = 1 /\ audios[e].canplay /\ isPlaying

\* C13: changeVolume(v) sets volume and volumeRef.current to v, stores v's
\* string under the volume key, sets the volume of the element in
\* audioRef.current when there is one, and leaves isPlaying, currentSound,
\* isLoading, playIdRef.current, pendingAudioRef.current and the fallback
\* timer as they were.
C13_ChangeVolumeFrame ==
  [][\A v \in VolumeInputs :
       changeVolume(v) =>
         /\ volume' = v /\ volumeRef' = v
         /\ storage'.present /\ storage'.value = NumberToString(v)
         /\ audioRef # NullRef => audios'[audioRef].volume = v
         /\ UNCHANGED <<isPlaying, currentSound, isLoading, playIdRef,
                        pendingAudioRef, loadTimeoutRef, timers>>]_vars

\* C13 witness: the volume has been changed and stored, and the playing
\* element carries it
C13_Witness ==
  /\ isPlaying /\ audioRef # NullRef
  /\ \E v \in VolumeInputs :
       /\ volume = v /\ volumeRef = v /\ storage = Stored(NumberToString(v))
       /\ audios[audioRef].volume = v

\* C20: pendingAudioRef.current and audioRef.current are never both
\* non-null: the promotion moves the element from one to the other in one
\* step, and playSound clears both before it installs a pending element.
C20_PendingOrActiveNotBoth ==
  ~(pendingAudioRef # NullRef /\ audioRef # NullRef)

\* C20 witness: a second request's element has been promoted to active after
\* the first one's was, and nothing is pending
C20_Witness ==
  /\ audioRef # NullRef /\ pendingAudioRef = NullRef
  /\ audios[audioRef].playId = 2 /\ audios[audioRef].started
  /\ \E e \in Refs : audios[e].playId = 1 /\ audios[e].started

\* C19 as stated: whenever audioRef.current is non-null, its volume is
\* volumeRef.current, also when changeVolume was called while the element was
\* still pending.
C19_ActiveVolumeIsLive ==
  audioRef # NullRef => audios[audioRef].volume = volumeRef

\* C19 amended: an element is created with the live volume; changeVolume sets
\* the volume of the element in audioRef.current and leaves a pending
\* element's volume as it was; the promotion of a pending element keeps the
\* volume it has.  So the active element has the live volume unless
\* changeVolume was called while it was pending.
C19_ActiveVolumeFollowsChanges ==
  [][/\ \/ pendingAudioRef' = NullRef
        \/ audios'[pendingAudioRef'].volume = volumeRef
        \/ ~(\E s \in Sounds : playSound(s))
     /\ \A v \in VolumeInputs :
          changeVolume(v) =>
            /\ audioRef # NullRef => audios'[audioRef].volume = volumeRef'
            /\ pendingAudioRef # NullRef =>
                 audios'[pendingAudioRef].volume = audios[pendingAudioRef].volume
     /\ \A e \in Refs :
          \/ audioRef' # e
          \/ audios'[e].volume = audios[e].volume
          \/ ~playFulfilled(e)]_vars

\* C19 witness: the element was created at the default volume, the volume was
\* changed while it was pending, and it now plays at the default volume
C19_Witness ==
  /\ isPlaying /\ audioRef # NullRef /\ audios[audioRef].audible
  /\ audios[audioRef].playId = playIdRef
  /\ audios[audioRef].volume = DefaultVolume
  /\ volumeRef \in VolumeInputs /\ volumeRef # DefaultVolume

\* ============================ properties of the teardown (SpecUnmount)
\* every reference is null, no timer is armed and no element plays
TornDown ==
  /\ audioRef = NullRef /\ pendingAudioRef = NullRef
  /\ loadTimeoutRef = NullRef /\ timers = {}
  /\ Audible = {}

\* C16: the unmount cleanup, from any state, leaves audioRef.current and
\* pendingAudioRef.current null, the fallback timer cancelled and both
\* elements paused, and no step after it makes an element audible or assigns
\* audioRef.current.
C16_UnmountReleasesAll ==
  [][/\ unmount => TornDown'
     /\ ~mounted => TornDown']_vars

\* C16 witness: unmounted while a request was loading, its canplay event and
\* its play() promise still to be delivered
C16_Witness ==
  /\ ~mounted /\ TornDown
  /\ \E e \in Refs : audios[e].canplay /\ audios[e].plays > 0
                     /\ audios[e].playId + 1 = playIdRef

\* a step that is a call of playSound, stopSound or the unmount cleanup
CallStep == (\E s \in Sounds : playSound(s)) \/ stopSound \/ unmount

\* C17: playIdRef.current never decreases: a step changes it exactly when it
\* is a playSound, stopSound or unmount call, and then adds exactly 1, so
\* changeVolume and the callbacks leave it alone; the thisPlayId a playSound
\* call captures is the new value, larger than the id of every element
\* created before.
C17_GenerationMonotonic ==
  [][IF playIdRef' = playIdRef
     THEN ~CallStep
     ELSE /\ playIdRef' = playIdRef + 1
          /\ CallStep
          /\ \A s \in Sounds :
               playSound(s) =>
                 /\ \A e \in Refs : audios[e].playId < playIdRef'
                 /\ pendingAudioRef' # NullRef =>
                      audios'[pendingAudioRef'].playId = playIdRef']_vars

\* C17 witness: two requests, then the unmount: the elements of the two
\* requests captured 1 and 2, and the generation is 3
C17_Witness ==
  /\ ~mounted /\ playIdRef = 3
  /\ \E e \in Refs : \E f \in Refs : audios[e].playId = 1 /\ audios[f].playId = 2

\* the play() calls element e can still see settled: the promises in flight,
\* and one call each for its canplay event and its timer while they are armed
AttemptsLeft(as, ts, e) ==
  as[e].plays + (IF as[e].canplay THEN 1 ELSE 0) + (IF e \in ts THEN 1 ELSE 0)

\* C18: a request makes at most three play() calls: its element starts with
\* one call made, its canplay event and its timer armed, and no step adds to
\* these; and while the controller is loading, only a playSound, stopSound or
\* unmount call, the element's error event or a play() success ends the
\* loading: rejected attempts leave isLoading true and the element pending.
C18_BoundedAttemptsThenStall ==
  [][/\ \A s \in Sounds :
          (playSound(s) /\ pendingAudioRef' # NullRef) =>
            AttemptsLeft(audios', timers', pendingAudioRef') = 3
     /\ \A e \in Slots :
          \/ audios'[e] = audios[e] /\ timers' = timers
          \/ ~audios[e].used
          \/ audios'[e].playId # audios[e].playId
          \/ AttemptsLeft(audios', timers', e) <= AttemptsLeft(audios, timers, e)
     /\ (isLoading /\ pendingAudioRef # NullRef) =>
          \/ isLoading' /\ pendingAudioRef' = pendingAudioRef
          \/ CallStep
          \/ handleError(pendingAudioRef)
          \/ playFulfilled(pendingAudioRef)]_vars

\* C18 witness: the three attempts of the live request were all rejected, no
\* error event has come, and the controller is still loading
C18_Witness ==
  /\ isLoading /\ mounted /\ pendingAudioRef # NullRef
  /\ audios[pendingAudioRef].playId = playIdRef
  /\ ~audios[pendingAudioRef].started /\ audios[pendingAudioRef].error
  /\ AttemptsLeft(audios, timers, pendingAudioRef) = 0

\* ====================== properties of the persisted volume (SpecVolume)
\* C14: for every volume v of the slider, 0 included, the string changeVolume(v)
\* stores is read back as v by the initializer, and a new instance of the hook
\* starts with the volume the old one had, whatever was played or stopped in
\* between.
C14_VolumeRoundTrip ==
  [][/\ \A v \in Volumes : changeVolume(v) => InitialVolume(storage') = v
     /\ (mount /\ volume \in Volumes) => volume' = volume]_vars

\* C14 witness: a new instance has started with the volume 0 that the store
\* holds, an element of the unmounted instance still being in the host
C14_Witness ==
  /\ mounted /\ playIdRef = 0 /\ volume = 0 /\ storage = Stored(<<"0">>)
  /\ \E e \in Refs : audios[e].orphan /\ audios[e].plays > 0

\* the initial volume as the specification words it
ExpectedInitialVolume(st) ==
  IF ~st.present \/ ParseFloat(st.value) = NaN THEN DefaultVolume
  ELSE ParseFloat(st.value)

\* C15: a new instance of the hook starts with volume 0.3 when the volume key
\* is absent or holds a string that does not parse as a number, and with the
\* parsed number otherwise.
C15_InitialVolumeDefault ==
  [][mount => volume' = ExpectedInitialVolume(storage)]_vars

\* ============================ properties of useAmbientSounds.ts (SpecHook)
\* C5: stopSound() wins over an earlier playSound still in flight: the
\* canplaythrough event and the play() success of an element stopped before it
\* was ready leave isPlaying and currentSound alone and the element silent.
C5_HookStopWins ==
  [][\A e \in Refs :
       (audios[e].stoppedBeforeReady
          /\ (handleCanPlay_hook(e) \/ playFulfilled_hook(e))) =>
         /\ UNCHANGED <<isPlaying, currentSound>>
         /\ ~audios'[e].audible]_vars

\* C6: at most one audio element of the hook is audibly playing.
C6_HookAtMostOneAudible == \A e \in Audible : \A f \in Audible : e = f

====
